---- MODULE Spec2Model ----
(***************************************************************************)
(* Model of src/assets/python-shim.py (Conduit, Code Mode SDK).            *)
(*                                                                         *)
(* The shim holds two coroutines, discover_mcp_tools and                   *)
(* _internal_call_tool.  Each one calls a host function injected into the  *)
(* global scope, suspends on the awaitable it returns, and on resumption   *)
(* normalises the host result with hasattr(res, 'to_py'), res.to_py(),     *)
(* isinstance(data, dict) and data.get('tools', []).                       *)
(*                                                                         *)
(* Python objects are records [py |-> <type name>, <payload>].             *)
(* JavaScript values are records [js |-> <type name>, <payload>].          *)
(* A JsProxy is the Python object that wraps a JavaScript value; it is the *)
(* only Python object of the model that has the attribute to_py.           *)
(***************************************************************************)
EXTENDS Integers, Sequences, FiniteSets, TLC

\* ------------------------------------------------------------------ bounds
\* Number of coroutine frames that may be in flight at once (SpecConc).
NumTasks == 2
\* Longest "tools" array the host answers with.
MaxTools == 2

\* ------------------------------------------------------- Python / JS values
PyNone == [py |-> "NoneType"]
PyInt(n) == [py |-> "int", int |-> n]
PyStr(s) == [py |-> "str", str |-> s]
PyList(xs) == [py |-> "list", items |-> xs]
\* A dict is its set of <<key, value>> pairs, one pair per key.
PyDict(kvs) == [py |-> "dict", entries |-> kvs]
JsProxy(j) == [py |-> "JsProxy", wrapped |-> j]

JsNull == [js |-> "null"]
JsNumber(n) == [js |-> "number", num |-> n]
JsString(s) == [js |-> "string", str |-> s]
JsArray(xs) == [js |-> "Array", items |-> xs]
\* An object is its set of <<property, value>> pairs.
JsObject(kvs) == [js |-> "Object", props |-> kvs]

\* The literal [] of lines 11 and 12.
EmptyList == PyList(<<>>)

\* ------------------------------------------------------ the code's helpers
\* res.to_py(): the deep conversion of the wrapped JavaScript value.
RECURSIVE js_to_py(_)
js_to_py(j) ==
    CASE j.js = "null" -> PyNone
      [] j.js = "number" -> PyInt(j.num)
      [] j.js = "string" -> PyStr(j.str)
      [] j.js = "Array" -> PyList([i \in 1..Len(j.items) |-> js_to_py(j.items[i])])
      [] j.js = "Object" -> PyDict({<<kv[1], js_to_py(kv[2])>> : kv \in j.props})

to_py(res) == js_to_py(res.wrapped)

\* hasattr(res, 'to_py')
hasattr_to_py(res) == res.py = "JsProxy"

\* isinstance(data, dict)
isinstance_dict(data) == data.py = "dict"

\* key in data
dict_has(data, key) == \E kv \in data.entries : kv[1] = key

\* data.get(key): the default left out.
dict_get_nodefault(data, key, default) ==
    IF dict_has(data, key)
    THEN (CHOOSE kv \in data.entries : kv[1] = key)[2] ELSE PyNone

\* data.get(key, default)
dict_get(data, key, default) ==
    IF dict_has(data, key)
    THEN (CHOOSE kv \in data.entries : kv[1] = key)[2] ELSE default

\* ---------------------------------------------- the wrappers' normalisation
\* Lines 9-12 with the tools list reversed before it is returned.
discover_result_reversed(res) ==
    IF hasattr_to_py(res)
    THEN LET data == to_py(res)
             tools == IF isinstance_dict(data)
                      THEN dict_get(data, "tools", EmptyList) ELSE EmptyList
         IN IF tools.py = "list"
            THEN PyList([i \in 1..Len(tools.items) |->
                            tools.items[Len(tools.items) + 1 - i]])
            ELSE tools
    ELSE EmptyList

\* Lines 9-12 with the raw result searched for "tools" like a converted one.
discover_result_raw_tools(res) ==
    LET data == IF hasattr_to_py(res) THEN to_py(res) ELSE res
    IN IF isinstance_dict(data) THEN dict_get(data, "tools", EmptyList)
       ELSE EmptyList

\* Lines 9-12 with a converted non-mapping returned as it is.
discover_result_any_data(res) ==
    IF hasattr_to_py(res)
    THEN LET data == to_py(res)
         IN IF isinstance_dict(data) THEN dict_get(data, "tools", EmptyList)
            ELSE data
    ELSE EmptyList

\* discover_mcp_tools, lines 9-12: what the coroutine returns for host
\* result res.
discover_result(res) ==
    IF hasattr_to_py(res)
    THEN LET data == to_py(res)
         IN IF isinstance_dict(data) THEN dict_get(data, "tools", EmptyList)
            ELSE EmptyList
    ELSE EmptyList

\* Lines 17-19 with the fallback of discover_mcp_tools.
call_result_default(res) == IF hasattr_to_py(res) THEN to_py(res) ELSE EmptyList

\* Lines 17-19 without the conversion.
call_result_raw(res) == res

\* _internal_call_tool, lines 17-19: what the coroutine returns for host
\* result res.
call_result(res) == IF hasattr_to_py(res) THEN to_py(res) ELSE res

\* Number of res.to_py() calls the coroutine makes for host result res
\* (lines 9-10 and 17-18).
conversions(res) == IF hasattr_to_py(res) THEN 1 ELSE 0

\* ------------------------------------------------- what the host may answer
ToolNames == {"a", "b"}

RECURSIVE SeqsUpTo(_, _)
SeqsUpTo(S, n) ==
    IF n = 0 THEN {<<>>}
    ELSE LET shorter == SeqsUpTo(S, n - 1)
         IN shorter \cup {Append(xs, x) : xs \in shorter, x \in S}

JsToolArrays == {JsArray(xs) : xs \in SeqsUpTo({JsString(n) : n \in ToolNames}, MaxTools)}
JsScalars == {JsNull, JsNumber(7), JsString("s")}
\* Values a host may put under the key "tools".
JsToolsEntries == JsToolArrays \cup JsScalars \cup {JsObject({})}
JsObjects ==
    {JsObject({}), JsObject({<<"other", JsNumber(7)>>})}
      \cup {JsObject({<<"tools", v>>}) : v \in JsToolsEntries}
      \cup {JsObject({<<"tools", v>>, <<"other", JsNumber(7)>>}) : v \in JsToolArrays}
JsValues == JsScalars \cup JsToolArrays \cup JsObjects

\* Host results with the attribute to_py.
Convertible == {JsProxy(j) : j \in JsValues}
\* Host results without it: native Python objects.
Opaque ==
    {PyNone, PyInt(7), PyStr("s"), PyList(<<PyStr("a")>>), PyDict({}),
     PyDict({<<"tools", PyList(<<PyStr("a"), PyStr("b")>>)>>})}
HostResults == Convertible \cup Opaque

\* The host results of the concurrent specification: one per branch of the
\* two wrappers.
ConcHostResults ==
    {PyStr("s"),
     JsProxy(JsObject({})),
     JsProxy(JsArray(<<JsString("a")>>)),
     JsProxy(JsObject({<<"tools", JsArray(<<JsString("a"), JsString("b")>>)>>}))}

PyExc(name) == [py |-> "Exception", name |-> name]
HostErrors == {PyExc("JsException"), PyExc("TimeoutError")}

\* What callers pass.
OptionValues == {PyNone, PyDict({<<"refresh", PyInt(1)>>})}
NameValues == {PyStr("x"), PyStr("y")}
ArgumentValues == {PyDict({}), PyDict({<<"q", PyInt(7)>>})}

\* ------------------------------------------------------------------- state
Tasks == 1..NumTasks
\* The single caller of the sequential specification.
SeqTasks == {1}

VARIABLES
    pc,          \* pc[t]: "idle", "await" (suspended at line 7 or 16), "done", "raised"
    fn,          \* fn[t]: the wrapper frame t runs
    argv,        \* argv[t]: the arguments the caller passed
    hostCalls,   \* hostCalls[t]: the calls of injected host functions frame t has made
    future,      \* future[t]: the awaitable the host returned to frame t
    to_py_calls, \* to_py_calls[t]: how often frame t called res.to_py()
    outcome      \* outcome[t]: what frame t delivered to its caller

vars == <<pc, fn, argv, hostCalls, future, to_py_calls, outcome>>

Return(v) == [kind |-> "return", value |-> v]
Raise(e) == [kind |-> "raise", value |-> e]
NoOutcome == [kind |-> "none", value |-> PyNone]

Pending == [state |-> "pending", value |-> PyNone]
Resolved(r) == [state |-> "resolved", value |-> r]
Rejected(e) == [state |-> "rejected", value |-> e]
NoFuture == [state |-> "none", value |-> PyNone]

Init ==
    /\ pc = [t \in Tasks |-> "idle"]
    /\ fn = [t \in Tasks |-> "none"]
    /\ argv = [t \in Tasks |-> <<>>]
    /\ hostCalls = [t \in Tasks |-> <<>>]
    /\ future = [t \in Tasks |-> NoFuture]
    /\ to_py_calls = [t \in Tasks |-> 0]
    /\ outcome = [t \in Tasks |-> NoOutcome]

\* ------------------------------------------------------------ host calls
\* Line 7 with the caller's options replaced by None.
discover_host_call_no_options(options) ==
    [fn |-> "discover_mcp_tools_js", args |-> <<PyNone>>]

\* Line 7: discover_mcp_tools_js(options)
discover_host_call(options) ==
    [fn |-> "discover_mcp_tools_js", args |-> <<options>>]

\* Line 16: call_mcp_tool_js(name, arguments)
tool_host_call(name, arguments) ==
    [fn |-> "call_mcp_tool_js", args |-> <<name, arguments>>]

\* The await of lines 7 and 16 reading the awaitable that settled first,
\* whichever frame it belongs to.
awaited_any(t) ==
    future[CHOOSE u \in Tasks : future[u].state \in {"resolved", "rejected"}]

\* The await of lines 7 and 16: frame t reads the awaitable of its own call.
awaited(t) == future[t]

\* Lines 7-12 with the awaited call wrapped in try/except returning [].
discover_outcome_caught(fut) ==
    IF fut.state = "rejected" THEN Return(EmptyList)
    ELSE Return(discover_result(fut.value))

\* Lines 7-12 after the await: a rejected awaitable raises out of the
\* coroutine, a resolved one is normalised and returned.
discover_outcome(fut) ==
    IF fut.state = "rejected" THEN Raise(fut.value)
    ELSE Return(discover_result(fut.value))

\* Lines 16-19 after the await.
call_outcome(fut) ==
    IF fut.state = "rejected" THEN Raise(fut.value)
    ELSE Return(call_result(fut.value))

\* res.to_py() calls made after the await: none when the await raised.
conversions_after(fut) ==
    IF fut.state = "rejected" THEN 0 ELSE conversions(fut.value)

\* ----------------------------------------------------------------- actions
\* discover_mcp_tools(options) up to its suspension at line 7.
discover_mcp_tools_start(t, options) ==
    /\ pc[t] = "idle"
    /\ pc' = [pc EXCEPT ![t] = "await"]
    /\ fn' = [fn EXCEPT ![t] = "discover_mcp_tools"]
    /\ argv' = [argv EXCEPT ![t] = <<options>>]
    /\ hostCalls' = [hostCalls EXCEPT ![t] = Append(@, discover_host_call(options))]
    /\ future' = [future EXCEPT ![t] = Pending]
    /\ UNCHANGED <<to_py_calls, outcome>>

\* _internal_call_tool(name, arguments) up to its suspension at line 16.
internal_call_tool_start(t, name, arguments) ==
    /\ pc[t] = "idle"
    /\ pc' = [pc EXCEPT ![t] = "await"]
    /\ fn' = [fn EXCEPT ![t] = "_internal_call_tool"]
    /\ argv' = [argv EXCEPT ![t] = <<name, arguments>>]
    /\ hostCalls' = [hostCalls EXCEPT ![t] = Append(@, tool_host_call(name, arguments))]
    /\ future' = [future EXCEPT ![t] = Pending]
    /\ UNCHANGED <<to_py_calls, outcome>>

\* The host settles the awaitable of frame t with result r.
host_resolve(t, r) ==
    /\ future[t].state = "pending"
    /\ future' = [future EXCEPT ![t] = Resolved(r)]
    /\ UNCHANGED <<pc, fn, argv, hostCalls, to_py_calls, outcome>>

\* The host call of frame t fails with error e.
host_reject(t, e) ==
    /\ future[t].state = "pending"
    /\ future' = [future EXCEPT ![t] = Rejected(e)]
    /\ UNCHANGED <<pc, fn, argv, hostCalls, to_py_calls, outcome>>

\* discover_mcp_tools from its resumption at line 7 to its end at line 12.
discover_mcp_tools_resume(t) ==
    /\ pc[t] = "await"
    /\ fn[t] = "discover_mcp_tools"
    /\ future[t].state \in {"resolved", "rejected"}
    /\ LET out == discover_outcome(awaited(t))
       IN /\ outcome' = [outcome EXCEPT ![t] = out]
          /\ pc' = [pc EXCEPT ![t] = IF out.kind = "raise" THEN "raised" ELSE "done"]
    /\ to_py_calls' = [to_py_calls EXCEPT ![t] = @ + conversions_after(awaited(t))]
    /\ UNCHANGED <<fn, argv, hostCalls, future>>

\* _internal_call_tool from its resumption at line 16 to its end at line 19.
internal_call_tool_resume(t) ==
    /\ pc[t] = "await"
    /\ fn[t] = "_internal_call_tool"
    /\ future[t].state \in {"resolved", "rejected"}
    /\ LET out == call_outcome(awaited(t))
       IN /\ outcome' = [outcome EXCEPT ![t] = out]
          /\ pc' = [pc EXCEPT ![t] = IF out.kind = "raise" THEN "raised" ELSE "done"]
    /\ to_py_calls' = [to_py_calls EXCEPT ![t] = @ + conversions_after(awaited(t))]
    /\ UNCHANGED <<fn, argv, hostCalls, future>>

\* One caller, every host result.
Next ==
    \E t \in SeqTasks :
        \/ \E options \in OptionValues : discover_mcp_tools_start(t, options)
        \/ \E name \in NameValues, arguments \in ArgumentValues :
               internal_call_tool_start(t, name, arguments)
        \/ \E r \in HostResults : host_resolve(t, r)
        \/ \E e \in HostErrors : host_reject(t, e)
        \/ discover_mcp_tools_resume(t)
        \/ internal_call_tool_resume(t)

Spec == Init /\ [][Next]_vars

\* NumTasks callers in flight at once, their host calls settling in any order.
NextConc ==
    \E t \in Tasks :
        \/ \E options \in OptionValues : discover_mcp_tools_start(t, options)
        \/ \E name \in NameValues, arguments \in ArgumentValues :
               internal_call_tool_start(t, name, arguments)
        \/ \E r \in ConcHostResults : host_resolve(t, r)
        \/ \E e \in HostErrors : host_reject(t, e)
        \/ discover_mcp_tools_resume(t)
        \/ internal_call_tool_resume(t)

SpecConc == Init /\ [][NextConc]_vars

\* ------------------------------------------------------------------ claims
\* Frame t ran wrapper f to its return and its host call resolved with a
\* result.
Returned(t, f) ==
    /\ pc[t] = "done"
    /\ fn[t] = f
    /\ future[t].state = "resolved"

\* The JavaScript value behind a convertible host result has property key.
JsHas(js, key) == js.js = "Object" /\ \E kv \in js.props : kv[1] = key

JsProp(js, key) == (CHOOSE kv \in js.props : kv[1] = key)[2]

\* C1: when the host discovery result has to_py and converts to a mapping
\* whose "tools" entry is the sequence [t1, t2, ...], discover_mcp_tools
\* returns a list of the same length holding the i-th converted element at
\* position i.
C1_ToolsReturnedInOrder ==
    \A t \in Tasks :
        (/\ Returned(t, "discover_mcp_tools")
         /\ hasattr_to_py(future[t].value)
         /\ JsHas(future[t].value.wrapped, "tools")
         /\ JsProp(future[t].value.wrapped, "tools").js = "Array")
        => LET ts == JsProp(future[t].value.wrapped, "tools").items
               ret == outcome[t].value
           IN /\ outcome[t].kind = "return"
              /\ ret.py = "list"
              /\ Len(ret.items) = Len(ts)
              /\ \A i \in 1..Len(ts) : ret.items[i] = js_to_py(ts[i])

C1_Witness ==
    \E t \in Tasks :
        /\ Returned(t, "discover_mcp_tools")
        /\ future[t].value =
             JsProxy(JsObject({<<"tools", JsArray(<<JsString("a"), JsString("b")>>)>>,
                               <<"other", JsNumber(7)>>}))
        /\ outcome[t] = Return(PyList(<<PyStr("a"), PyStr("b")>>))

\* C2: when the host result has no to_py, _internal_call_tool returns the
\* raw host result itself, for every name and arguments.
C2_OpaquePassthrough ==
    \A t \in Tasks :
        (Returned(t, "_internal_call_tool") /\ ~hasattr_to_py(future[t].value))
        => outcome[t] = Return(future[t].value)

C2_Witness ==
    \E t \in Tasks :
        /\ Returned(t, "_internal_call_tool")
        /\ argv[t] = <<PyStr("x"), PyDict({})>>
        /\ future[t].value = PyStr("s")
        /\ outcome[t] = Return(PyStr("s"))

\* C3: when the host result has to_py, _internal_call_tool returns the
\* value the conversion produces, not the raw proxy and not a default.
C3_ConvertedReturned ==
    \A t \in Tasks :
        (Returned(t, "_internal_call_tool") /\ hasattr_to_py(future[t].value))
        => /\ outcome[t] = Return(js_to_py(future[t].value.wrapped))
           /\ outcome[t].value # future[t].value

C3_Witness ==
    \E t \in Tasks :
        /\ Returned(t, "_internal_call_tool")
        /\ future[t].value = JsProxy(JsObject({<<"tools", JsNull>>}))
        /\ outcome[t] = Return(PyDict({<<"tools", PyNone>>}))

\* C4: when the host discovery result has no to_py, discover_mcp_tools
\* returns the empty list, whatever the raw result holds.
C4_OpaqueGivesEmpty ==
    \A t \in Tasks :
        (Returned(t, "discover_mcp_tools") /\ ~hasattr_to_py(future[t].value))
        => outcome[t] = Return(EmptyList)

C4_Witness ==
    \E t \in Tasks :
        /\ Returned(t, "discover_mcp_tools")
        /\ future[t].value = PyDict({<<"tools", PyList(<<PyStr("a"), PyStr("b")>>)>>})
        /\ outcome[t] = Return(EmptyList)

\* C5: when the host discovery result converts to a mapping without the
\* key "tools", discover_mcp_tools returns the empty list and raises nothing.
C5_MissingKeyGivesEmpty ==
    \A t \in Tasks :
        (/\ Returned(t, "discover_mcp_tools")
         /\ hasattr_to_py(future[t].value)
         /\ future[t].value.wrapped.js = "Object"
         /\ ~JsHas(future[t].value.wrapped, "tools"))
        => outcome[t] = Return(EmptyList)

C5_Witness ==
    \E t \in Tasks :
        /\ Returned(t, "discover_mcp_tools")
        /\ future[t].value = JsProxy(JsObject({<<"other", JsNumber(7)>>}))
        /\ outcome[t] = Return(EmptyList)

\* C6: when the host discovery result has to_py but converts to a value
\* that is no mapping, discover_mcp_tools returns the empty list.
C6_NonMappingGivesEmpty ==
    \A t \in Tasks :
        (/\ Returned(t, "discover_mcp_tools")
         /\ hasattr_to_py(future[t].value)
         /\ future[t].value.wrapped.js # "Object")
        => outcome[t] = Return(EmptyList)

C6_Witness ==
    \E t \in Tasks :
        /\ Returned(t, "discover_mcp_tools")
        /\ future[t].value = JsProxy(JsArray(<<JsString("a"), JsString("b")>>))
        /\ outcome[t] = Return(EmptyList)

\* C7: whenever the host discovery call resolves, what discover_mcp_tools
\* returns is a list, for every host result.
C7_AlwaysAList ==
    \A t \in Tasks :
        Returned(t, "discover_mcp_tools")
        => outcome[t].kind = "return" /\ outcome[t].value.py = "list"

\* C8: when the awaited host call fails with error e, the wrapper ends by
\* raising that same e: it returns nothing and calls to_py on nothing.
C8_HostErrorPropagates ==
    \A t \in Tasks :
        (pc[t] \in {"done", "raised"} /\ future[t].state = "rejected")
        => /\ pc[t] = "raised"
           /\ outcome[t] = Raise(future[t].value)
           /\ to_py_calls[t] = 0

C8_Witness ==
    \E t \in Tasks :
        /\ pc[t] = "raised"
        /\ fn[t] = "discover_mcp_tools"
        /\ future[t] = Rejected(PyExc("JsException"))
        /\ outcome[t] = Raise(PyExc("JsException"))

\* The one host call wrapper f makes for the caller's arguments.
ExpectedHostCall(f, args) ==
    [fn |-> IF f = "discover_mcp_tools" THEN "discover_mcp_tools_js"
            ELSE "call_mcp_tool_js",
     args |-> args]

\* C9: a wrapper that has not started has made no host call; once started it
\* has made exactly one, to its own host function with the caller's
\* arguments as passed; and it ends only after that call has settled.
C9_ExactlyOneHostCall ==
    \A t \in Tasks :
        /\ pc[t] = "idle" => hostCalls[t] = <<>>
        /\ pc[t] # "idle" => hostCalls[t] = <<ExpectedHostCall(fn[t], argv[t])>>
        /\ pc[t] \in {"done", "raised"} => future[t].state \in {"resolved", "rejected"}

C9_Witness ==
    \E t \in Tasks :
        /\ pc[t] = "done"
        /\ argv[t] = <<PyDict({<<"refresh", PyInt(1)>>})>>
        /\ hostCalls[t] =
             <<[fn |-> "discover_mcp_tools_js", args |-> <<PyDict({<<"refresh", PyInt(1)>>})>>]>>

\* C10: with several wrappers in flight and their host calls settling in any
\* order, every wrapper that has ended delivered the normalisation of the
\* outcome of its own host call.
C10_OwnResultOnly ==
    \A t \in Tasks :
        pc[t] \in {"done", "raised"}
        => outcome[t] = IF fn[t] = "discover_mcp_tools"
                        THEN discover_outcome(future[t])
                        ELSE call_outcome(future[t])

C10_Witness ==
    /\ pc[1] = "done"
    /\ fn[1] = "discover_mcp_tools"
    /\ outcome[1] = Return(PyList(<<PyStr("a"), PyStr("b")>>))
    /\ pc[2] = "raised"
    /\ fn[2] = "_internal_call_tool"
    /\ outcome[2] = Raise(PyExc("TimeoutError"))

====
